---------------------------- MODULE Spec2Model ----------------------------
(***************************************************************************)
(* Model of the multi-source quote reconciliation and validation code of   *)
(* the stock analyzers (improved_stock_analyzer.py and its variants).      *)
(*                                                                         *)
(* Numbers.  Python floats are modelled by exact integers and fractions.   *)
(* A price is carried as the price of one lot: the model's price p stands  *)
(* for the Python value p / LotSize (so 24950 is 249.50).  With that unit  *)
(*   estimated_amount = price * volume * 100      is  p * volume           *)
(*   estimated_price  = amount / (volume * 100)   is  amount / volume      *)
(* and every threshold on a price is multiplied by LotSize.  Ratios are    *)
(* compared after multiplying out their (positive) denominators.           *)
(*                                                                         *)
(* Python values that are not numbers are kept apart by a tag:             *)
(*   "float"   a number (val),        "nan"  float('nan'),                 *)
(*   "None"    None,                  "missing"  the key is not in the dict*)
(*   "inf"     an infinity (sign val), "huge"  a double near the maximum,   *)
(*   "str"     a string (val its characters), "bigint", "object"           *)
(*                                                                         *)
(* Also modelled: the indicator functions (RSI, MACD, Bollinger, Sharpe),  *)
(* safe_float_conversion, get_accurate_trade_data and the rate limiter of  *)
(* akshare_enhanced.py and stock_data_fetcher.py with their retry loops,   *)
(* the rate_limited decorator, StockAnalysisValidator and the baostock     *)
(* session of MultiSourceStockAnalyzer.                                    *)
(***************************************************************************)
EXTENDS Integers, Sequences, FiniteSets, TLC

VARIABLES
    sources_data,   \* the dict handed to validate_data_consistency, in insertion order
    consistency,    \* what validate_data_consistency did with it
    report,         \* what analyze_stock printed for sources_data
    primary_data,   \* get_accurate_trade_data: the akshare record, if fetched
    secondary_data, \* get_accurate_trade_data: the easyquotation record, if fetched
    final_data,     \* get_accurate_trade_data: the dict it returns
    call,           \* a validator call: the class, the method and its arguments
    ret,            \* what that call returned
    min_request_interval, \* rate limiter: self.min_request_interval
    last_request_time,    \* rate limiter: self.last_request_time
    lock,           \* rate limiter: the thread holding self.lock, or NoThread
    pc,             \* rate limiter: where each thread is in wait_for_rate_limit
    sleep_time,     \* rate limiter: each thread's local sleep_time
    now,            \* what time.time() returns
    recorded,       \* the values assigned to last_request_time, in order
    known_codes,        \* StockAnalysisValidator: self.known_codes
    known_wrong_codes,  \* StockAnalysisValidator: self.known_wrong_codes
    latest_pair,        \* the code of the latest add_known_pair, by name
    max_retries,    \* get_with_retry: self.max_retries (_make_request: max_retries)
    backoff_unit,   \* the factor of wait_time: 2 (get_with_retry), 3 (_make_request)
    attempt,        \* each thread's loop variable attempt
    backoffs,       \* how often each thread slept between attempts
    response,       \* what each thread's call returned
    attempts,       \* the HTTP attempts made: thread and start time, in order
    has_last_call,  \* rate_limited: hasattr(wrapper, '_last_call')
    last_call,      \* rate_limited: wrapper._last_call
    wrapper_time,   \* rate_limited: each thread's local current_time
    wrapper_pc,     \* rate_limited: where each thread is in wrapper
    entered,        \* the times at which func was entered, in order
    active_sources, \* MultiSourceStockAnalyzer: self.active_sources
    session,        \* baostock: whether a login is in force
    session_log,    \* the bs.login() and bs.logout() calls made, in order
    last_op         \* the analyzer method that returned last, and how

reconcile_vars == <<sources_data, consistency, report>>
accurate_vars == <<primary_data, secondary_data, final_data>>
validator_vars == <<call, ret>>
limiter_vars == <<min_request_interval, last_request_time, lock, pc, sleep_time,
                  now, recorded>>
framework_vars == <<known_codes, known_wrong_codes, latest_pair>>
retry_vars == <<max_retries, backoff_unit, attempt, backoffs, response, attempts>>
decorator_vars == <<has_last_call, last_call, wrapper_time, wrapper_pc, entered>>
baostock_vars == <<active_sources, session, session_log, last_op>>
later_vars == <<framework_vars, retry_vars, decorator_vars, baostock_vars>>
vars == <<sources_data, consistency, report, primary_data, secondary_data,
          final_data, call, ret, min_request_interval, last_request_time, lock,
          pc, sleep_time, now, recorded, known_codes, known_wrong_codes,
          latest_pair, max_retries, backoff_unit, attempt, backoffs, response,
          attempts, has_last_call, last_call, wrapper_time, wrapper_pc, entered,
          active_sources, session, session_log, last_op>>

---------------------------------------------------------------------------
(* The rate limiter after construction (AkshareEnhanced.__init__,          *)
(* StockDataFetcher.__init__)                                              *)

MaxThreads == 2
Threads == 1..MaxThreads
NoThread == 0

\* min_request_interval: float = 3.0 (AkshareEnhanced) and
\* request_interval: float = 2.0 (StockDataFetcher), in seconds
MinRequestInterval == 3
RequestInterval == 2

\* last_request_time = 0, lock = threading.Lock(); no thread has called
\* yet, and the clock shows a time later than the interval
LimiterConstructed(interval) ==
    /\ min_request_interval = interval
    /\ last_request_time = 0
    /\ lock = NoThread
    /\ pc = [t \in Threads |-> "idle"]
    /\ sleep_time = [t \in Threads |-> 0]
    /\ now = interval
    /\ recorded = <<>>

---------------------------------------------------------------------------
(* StockAnalysisValidator after construction (validation_framework.py)     *)

\* Python's None where a stock code is expected; codes are strings
NoCode == "None"

\* self.known_codes = {...}: of its ten entries one that has no list of
\* wrong codes and the one that has
FreshKnownCodes == [n \in {"BYD", "Yitang"} |->
                      IF n = "BYD" THEN "002594" ELSE "688729"]

\* self.known_wrong_codes = {'屹唐股份': ['300346', '300442', '600729']}
FreshKnownWrongCodes == [n \in {"Yitang"} |-> <<"300346", "300442", "600729">>]

ValidatorConstructed ==
    /\ known_codes = FreshKnownCodes
    /\ known_wrong_codes = FreshKnownWrongCodes
    /\ latest_pair = <<>>

---------------------------------------------------------------------------
(* The retry loop before a call (akshare_enhanced.py,                      *)
(* stock_data_fetcher.py)                                                  *)

\* self.max_retries = max_retries with max_retries: int = 3, and
\* _make_request(..., max_retries: int = 3)
DefaultMaxRetries == 2

\* wait_time = (attempt + 1) * 2 and wait_time = (attempt + 1) * 3
AkshareBackoff == 2
FetcherBackoff == 3

NoResponse == "not returned"

RetryConstructed(retries, unit) ==
    /\ max_retries = retries
    /\ backoff_unit = unit
    /\ attempt = [t \in Threads |-> 0]
    /\ backoffs = [t \in Threads |-> 0]
    /\ response = [t \in Threads |-> NoResponse]
    /\ attempts = <<>>

---------------------------------------------------------------------------
(* A function decorated with rate_limited before its first call            *)

WrapperDefined ==
    /\ has_last_call = FALSE
    /\ last_call = 0
    /\ wrapper_time = [t \in Threads |-> 0]
    /\ wrapper_pc = [t \in Threads |-> "idle"]
    /\ entered = <<>>

---------------------------------------------------------------------------
(* MultiSourceStockAnalyzer after construction                             *)

NoOp == [method |-> "none", result |-> "none"]

\* self.active_sources = []; nobody has logged in to baostock
AnalyzerConstructed ==
    /\ active_sources = <<>>
    /\ session = "logged out"
    /\ session_log = <<>>
    /\ last_op = NoOp

LaterConstructed ==
    /\ ValidatorConstructed
    /\ RetryConstructed(DefaultMaxRetries, AkshareBackoff)
    /\ WrapperDefined
    /\ AnalyzerConstructed

---------------------------------------------------------------------------
(* Python values *)

Num(n) == [tag |-> "float", val |-> n]
None == [tag |-> "None", val |-> 0]
NaN == [tag |-> "nan", val |-> 0]
Missing == [tag |-> "missing", val |-> 0]

\* dict.get(key, 0)
Get(data, key) == IF data[key].tag = "missing" THEN Num(0) ELSE data[key]

\* x > n, x < n, ... for a value that is a number or nan: every comparison
\* with nan is False.  (A comparison with None raises TypeError; the callers
\* test IsNone first.)
IsNone(x) == x.tag = "None"
IsNum(x) == x.tag = "float"
GT(x, n) == IsNum(x) /\ x.val > n
LT(x, n) == IsNum(x) /\ x.val < n
LE(x, n) == IsNum(x) /\ x.val <= n
Abs(n) == IF n < 0 THEN -n ELSE n

LotSize == 100
LotPrice(x) == x * LotSize

\* the empty dict {}
EmptyDict == [price |-> Missing, volume |-> Missing, amount |-> Missing,
              change_pct |-> Missing]

\* a fraction num / den, den > 0
Frac(n, d) == [num |-> n, den |-> d]
FracLess(a, b) == a.num * b.den < b.num * a.den


---------------------------------------------------------------------------
(* ImprovedStockAnalyzer.validate_data_consistency *)

\* What the loop body does with one source (lines 122-130):
\*   "raise"       a compared field is None: TypeError leaves the function
\*   "skip"        the source is not appended to valid_sources
\*   "estimated"   appended with estimated_price (line 128)
\*   "reported"    appended with data['price'] (line 130)
\* The conditions are evaluated left to right and `and` short-circuits.
\* price_diff_ratio < 0.5 is |amount/volume - price| / price < 1/2 in lot
\* prices; with E = price * volume it reads 2 * |amount - E| < E, written
\* d < E - d.
SourceCheck(data) ==
    LET price == Get(data, "price")
        volume == Get(data, "volume")
        amount == Get(data, "amount")
    IN  IF IsNone(price) THEN "raise"
        ELSE IF ~GT(price, 0) THEN "skip"
        ELSE IF IsNone(volume) THEN "raise"
        ELSE IF ~GT(volume, 0) THEN "skip"
        ELSE IF IsNone(amount) THEN "raise"
        ELSE IF GT(amount, 0)
             THEN LET E == price.val * volume.val
                      d == Abs(amount.val - E)
                  IN  IF d < E - d THEN "estimated" ELSE "skip"
             ELSE "reported"

\* the third component of the tuple appended to valid_sources
EstimatedPrice(data, check) ==
    IF check = "estimated"
    THEN Frac(data.amount.val, data.volume.val)
    ELSE Frac(data.price.val, 1)

\* the loop of lines 120-130 from source i on: valid_sources, or the
\* TypeError that ended it
RECURSIVE ValidSources(_, _, _)
ValidSources(sd, i, acc) ==
    IF i > Len(sd) THEN [raised |-> FALSE, valid_sources |-> acc]
    ELSE LET check == SourceCheck(sd[i].data)
         IN  IF check = "raise" THEN [raised |-> TRUE, valid_sources |-> acc]
             ELSE IF check = "skip" THEN ValidSources(sd, i + 1, acc)
             ELSE ValidSources(sd, i + 1,
                      Append(acc, [name |-> sd[i].name, data |-> sd[i].data,
                                   estimated |-> EstimatedPrice(sd[i].data, check)]))

\* (mutant: the sources are ranked by their reported price)
SelectionKeyReported(x) == Frac(x.data.price.val, 1)

\* key=lambda x: x[2] if x[2] > 0 else x[1]['price']   (line 136)
SelectionKey(x) ==
    IF x.estimated.num > 0 THEN x.estimated ELSE Frac(x.data.price.val, 1)

\* max(valid_sources, key=...): the first element whose key no other exceeds
RECURSIVE MaxByKey(_, _, _)
MaxByKey(valid, i, best) ==
    IF i > Len(valid) THEN best
    ELSE IF FracLess(SelectionKey(best), SelectionKey(valid[i]))
         THEN MaxByKey(valid, i + 1, valid[i])
         ELSE MaxByKey(valid, i + 1, best)

\* the method string, by its parts:
\*   "No data available", "No consistent data found",
\*   f"Single source: {source}", f"Selected from {n} sources, based on {source}"
\* (n and source are 0 where the string holds no count or no source)
Method(kind, n, source) == [kind |-> kind, n |-> n, source |-> source]

Returned(data, method) ==
    [status |-> "returned", selected_data |-> data, method |-> method]
Raised == [status |-> "raised", selected_data |-> EmptyDict,
           method |-> Method("TypeError", 0, 0)]
NotCalled == [status |-> "not called", selected_data |-> EmptyDict,
              method |-> Method("", 0, 0)]

\* (mutant: a source supplied alone goes through the filter like the others)
validate_data_consistency_no_single(sd) ==
    IF Len(sd) = 0 THEN Returned(EmptyDict, Method("No data available", 0, 0))
    ELSE LET loop == ValidSources(sd, 1, <<>>)
             valid == loop.valid_sources
         IN  IF loop.raised THEN Raised
             ELSE IF Len(valid) = 0
             THEN Returned(EmptyDict, Method("No consistent data found", 0, 0))
             ELSE LET best_source == MaxByKey(valid, 2, valid[1])
                  IN  Returned(best_source.data,
                               Method("Selected from", Len(valid), best_source.name))

validate_data_consistency(sd) ==
    IF Len(sd) = 0 THEN Returned(EmptyDict, Method("No data available", 0, 0))
    ELSE IF Len(sd) = 1
    THEN Returned(sd[1].data, Method("Single source", 0, sd[1].name))
    ELSE LET loop == ValidSources(sd, 1, <<>>)
             valid == loop.valid_sources
         IN  IF loop.raised THEN Raised
             ELSE IF Len(valid) = 0
             THEN Returned(EmptyDict, Method("No consistent data found", 0, 0))
             ELSE LET best_source == MaxByKey(valid, 2, valid[1])
                  IN  Returned(best_source.data,
                               Method("Selected from", Len(valid), best_source.name))

---------------------------------------------------------------------------
(* validate_data_reasonableness, validate_data_timeliness *)

\* what a validator hands back: the (bool, reason) pair, or the TypeError
Verdict(ok, reason) == [status |-> "returned", ok |-> ok, reason |-> reason]
TypeError == [status |-> "raised", ok |-> FALSE, reason |-> "TypeError"]
NoRet == [status |-> "not called", ok |-> FALSE, reason |-> ""]

PriceCeiling == 1000
ChangeCeiling == 20
USPriceCeiling == 10000
USChangeCeiling == 50

\* the three checks on price, change_pct and volume, in the order of the
\* code; a None in a comparison (or in abs) raises TypeError
ReasonablenessChecks(price, volume, change_pct, price_ceiling, change_ceiling, reasonable) ==
    IF IsNone(price) THEN TypeError
    ELSE IF LE(price, 0) \/ GT(price, LotPrice(price_ceiling))
    THEN Verdict(FALSE, "Price is out of reasonable range")
    ELSE IF IsNone(change_pct) THEN TypeError
    ELSE IF GT(change_pct, change_ceiling) \/ LT(change_pct, -change_ceiling)
    THEN Verdict(FALSE, "Change percentage is too extreme")
    ELSE IF IsNone(volume) THEN TypeError
    ELSE IF LT(volume, 0) THEN Verdict(FALSE, "Volume is negative")
    ELSE Verdict(TRUE, reasonable)

\* ImprovedStockAnalyzer.validate_data_reasonableness
validate_data_reasonableness(data) ==
    ReasonablenessChecks(Get(data, "price"), Get(data, "volume"),
                         Get(data, "change_pct"), PriceCeiling, ChangeCeiling,
                         "Data is reasonable")

\* ImprovedUSStockAnalyzer.validate_data_reasonableness
validate_data_reasonableness_us(data) ==
    ReasonablenessChecks(Get(data, "price"), Get(data, "volume"),
                         Get(data, "change_pct"), USPriceCeiling, USChangeCeiling,
                         "Data is reasonable for US stocks")

\* A str is a sequence of characters.  "yi" and "wan" stand for the
\* magnitude characters U+4EBF (10^8) and U+4E07 (10^4).
Str(chars) == [tag |-> "str", val |-> chars]

\* an int too large for a double (10**400), and an object that is neither
\* a number nor a string (a list, a dict)
BigInt == [tag |-> "bigint", val |-> 0]
Object == [tag |-> "object", val |-> 0]

\* an exception other than ValueError and TypeError leaves the function
OverflowError == [tag |-> "raise", val |-> 0]

Digits == {"0", "1", "2"}
DigitValue(c) == CASE c = "0" -> 0 [] c = "1" -> 1 [] c = "2" -> 2

\* the number a string of digits is written for
RECURSIVE DecimalValue(_)
DecimalValue(chars) ==
    IF chars = <<>> THEN 0
    ELSE 10 * DecimalValue(SubSeq(chars, 1, Len(chars) - 1))
         + DigitValue(chars[Len(chars)])

\* value.replace(',', '').replace('%', '').replace(yi, '').replace(wan, '')
NotStripped(c) == c \notin {",", "%", "yi", "wan"}
StripCharacters(chars) == SelectSeq(chars, NotStripped)

\* float(value) for a str of the model's characters: a non-empty string of
\* digits is its number, anything else is a ValueError, which hands back
\* the default
FloatOfStr(chars, default) ==
    IF chars # <<>> /\ \A i \in 1..Len(chars) : chars[i] \in Digits
    THEN Num(DecimalValue(chars))
    ELSE default

\* safe_float_conversion(value, default): float(value) keeps a float (nan
\* and inf included), raises OverflowError for an int beyond the doubles
\* and TypeError, which hands back the default, for another object
safe_float_conversion(value, default) ==
    IF IsNone(value) THEN default
    ELSE IF value.tag = "str" THEN FloatOfStr(StripCharacters(value.val), default)
    ELSE IF value.tag = "bigint" THEN OverflowError
    ELSE IF value.tag = "object" THEN default
    ELSE value

\* MultiSourceStockAnalyzer.validate_data_reasonableness
validate_data_reasonableness_multi(data) ==
    ReasonablenessChecks(safe_float_conversion(Get(data, "price"), Num(0)),
                         safe_float_conversion(Get(data, "volume"), Num(0)),
                         safe_float_conversion(Get(data, "change_pct"), Num(0)),
                         PriceCeiling, ChangeCeiling, "Data is reasonable")

\* ImprovedStockAnalyzer.validate_data_timeliness
validate_data_timeliness(data) ==
    IF IsNone(Get(data, "volume")) THEN TypeError
    ELSE Verdict(GT(Get(data, "volume"), 0), "")

---------------------------------------------------------------------------
(* ImprovedStockAnalyzer.analyze_stock, up to the real-time data block *)

Report(stage, quality, data) == [stage |-> stage, quality |-> quality, data |-> data]
NotRun == Report("not run", "", EmptyDict)

analyze_stock(sd) ==
    IF Len(sd) = 0 THEN Report("no data source", "", EmptyDict)
    ELSE LET selected == validate_data_consistency(sd)
             selected_data == selected.selected_data
         IN  IF selected.status = "raised" THEN Report("raised", "", EmptyDict)
             ELSE IF selected_data = EmptyDict
             THEN Report("no consistent data", "", EmptyDict)
             ELSE IF validate_data_timeliness(selected_data).status = "raised"
             THEN Report("raised", "", EmptyDict)
             ELSE LET reasonable == validate_data_reasonableness(selected_data)
                  IN  IF reasonable.status = "raised"
                      THEN Report("raised", "", EmptyDict)
                      ELSE IF ~reasonable.ok
                      THEN Report("not reasonable", "", EmptyDict)
                      ELSE Report("real-time data", "high", selected_data)

---------------------------------------------------------------------------
(* EnhancedStockAnalyzerFixed.get_accurate_trade_data *)

\* primary_data / secondary_data: None, or the dict built from the response
Fetched(data) == [fetched |-> TRUE, data |-> data]
NotFetched == [fetched |-> FALSE, data |-> EmptyDict]

FinalData(quality, source, warning, data) ==
    [status |-> "returned", data_quality |-> quality, data_source |-> source,
     warning |-> warning, data |-> data]
NoFinalData == [status |-> "not called", data_quality |-> "", data_source |-> "",
                warning |-> "", data |-> EmptyDict]
FinalDataRaised == [status |-> "raised", data_quality |-> "", data_source |-> "",
                    warning |-> "", data |-> EmptyDict]

\* (mutant: the default label is 'none')
DefaultFinalDataNone == FinalData("none", "none", "", EmptyDict)

\* final_data = {'data_quality': 'unknown', 'data_source': 'none'}
DefaultFinalData == FinalData("unknown", "none", "", EmptyDict)

\* `vol > 0 and amt > 0 and price > 0`: "raise" when a None is compared,
\* else "true" or "false"
AllPositive(vol, amt, price) ==
    IF IsNone(vol) THEN "raise"
    ELSE IF ~GT(vol, 0) THEN "false"
    ELSE IF IsNone(amt) THEN "raise"
    ELSE IF ~GT(amt, 0) THEN "false"
    ELSE IF IsNone(price) THEN "raise"
    ELSE IF ~GT(price, 0) THEN "false"
    ELSE "true"

\* calc_price = amt / (vol * 100); abs(calc_price - price) / price < 0.5
CalcPriceClose(vol, amt, price) ==
    LET E == price.val * vol.val
        d == Abs(amt.val - E)
    IN  d < E - d

get_accurate_trade_data(primary, secondary) ==
    IF primary.fetched
    THEN LET vol == primary.data.volume
             amt == primary.data.amount
             price == primary.data.price
             positive == AllPositive(vol, amt, price)
         IN  IF positive = "raise" THEN FinalDataRaised
             ELSE IF positive = "true"
             THEN IF CalcPriceClose(vol, amt, price)
                  THEN FinalData("high", "akshare_verified", "", primary.data)
                  ELSE IF secondary.fetched
                  THEN FinalData("medium", "mixed", "", secondary.data)
                  ELSE FinalData("low", "akshare_unverified",
                                 "price does not match volume/amount", primary.data)
             ELSE IF GT(vol, 0) /\ amt = Num(0)
             THEN FinalData("medium", "akshare_incomplete",
                            "amount is 0 but volume is not", primary.data)
             ELSE FinalData("low", "akshare_incomplete", "", primary.data)
    ELSE IF secondary.fetched
    THEN LET vol == secondary.data.volume
             amt == secondary.data.amount
             price == secondary.data.price
             positive == AllPositive(vol, amt, price)
         IN  IF positive = "raise" THEN FinalDataRaised
             ELSE IF positive = "true"
             THEN IF CalcPriceClose(vol, amt, price)
                  THEN FinalData("medium", "easyquotation_verified", "", secondary.data)
                  ELSE FinalData("low", "easyquotation_unverified",
                                 "price does not match volume/amount", secondary.data)
             ELSE FinalData("low", "easyquotation_incomplete", "", secondary.data)
    ELSE DefaultFinalData


\* a validator call before it is made
NoCall == [class |-> "", method |-> ""]

---------------------------------------------------------------------------
(* Inputs of the reconciliation *)

MaxSources == 3

\* quotes whose every field is an ordinary number
PlainQuotes ==
    [price : {Num(3), Num(4)}, volume : {Num(1), Num(2)},
     amount : {Num(0), Num(3), Num(7)}, change_pct : {Num(0)}]

\* quotes with one field that is null, not a number, zero, negative or out
\* of range
BaseQuote == [price |-> Num(4), volume |-> Num(1), amount |-> Num(3),
              change_pct |-> Num(0)]
OddQuotes ==
    {[BaseQuote EXCEPT !.price = x] :
        x \in {None, NaN, Num(0), Num(-1), Num(LotPrice(1000) + 1)}}
    \cup {[BaseQuote EXCEPT !.volume = x] : x \in {None, Num(0), Num(-1)}}
    \cup {[BaseQuote EXCEPT !.amount = x] : x \in {None, Num(-1)}}
    \cup {[BaseQuote EXCEPT !.change_pct = x] : x \in {Num(21), Num(-21)}}

Quotes == PlainQuotes \cup OddQuotes

\* The three consistent_sources of demo_verification.py and
\* test_system_integrity.py: prices 249.50, 249.48, 249.52, volume 5460800,
\* amounts 13685020000, 13684800000, 13685200000.  Volume and amount are both
\* written in hundreds (the code reads only their signs and their ratio);
\* the dicts have no change_pct key.
DemoQuote(price, amount) ==
    [price |-> Num(price), volume |-> Num(54608), amount |-> Num(amount),
     change_pct |-> Missing]
DemoSources ==
    << [name |-> 1, data |-> DemoQuote(24950, 136850200)],
       [name |-> 2, data |-> DemoQuote(24948, 136848000)],
       [name |-> 3, data |-> DemoQuote(24952, 136852000)] >>

---------------------------------------------------------------------------
(* The reconciliation as a state machine *)

InitReconcile ==
    /\ sources_data = <<>>
    /\ consistency = NotCalled
    /\ report = NotRun
    /\ primary_data = NotFetched /\ secondary_data = NotFetched
    /\ final_data = NoFinalData
    /\ LimiterConstructed(MinRequestInterval)
    /\ LaterConstructed
    /\ call = NoCall /\ ret = NoRet

\* sources_data[name] = {...}: source k is the k-th key inserted
PutSource ==
    /\ consistency.status = "not called"
    /\ report.stage = "not run"
    /\ Len(sources_data) < MaxSources
    /\ \E data \in Quotes :
          sources_data' = Append(sources_data,
                                 [name |-> Len(sources_data) + 1, data |-> data])
    /\ UNCHANGED <<consistency, report, accurate_vars, validator_vars, limiter_vars, later_vars>>

PutDemoSources ==
    /\ consistency.status = "not called"
    /\ report.stage = "not run"
    /\ sources_data = <<>>
    /\ sources_data' = DemoSources
    /\ UNCHANGED <<consistency, report, accurate_vars, validator_vars, limiter_vars, later_vars>>

ValidateDataConsistency ==
    /\ consistency.status = "not called"
    /\ report.stage = "not run"
    /\ consistency' = validate_data_consistency(sources_data)
    /\ UNCHANGED <<sources_data, report, accurate_vars, validator_vars, limiter_vars, later_vars>>

\* analyze_stock on the sources get_multi_source_data collected
AnalyzeStock ==
    /\ consistency.status = "not called"
    /\ report.stage = "not run"
    /\ report' = analyze_stock(sources_data)
    /\ UNCHANGED <<sources_data, consistency, accurate_vars, validator_vars, limiter_vars, later_vars>>

NextReconcile ==
    PutSource \/ PutDemoSources \/ ValidateDataConsistency \/ AnalyzeStock

SpecReconcile == InitReconcile /\ [][NextReconcile]_vars

---------------------------------------------------------------------------
(* get_accurate_trade_data as a state machine *)

InitAccurate == InitReconcile

\* one call: each of the two sources answers with a record or fails
GetAccurateTradeData ==
    /\ final_data.status = "not called"
    /\ \E primary \in {NotFetched} \cup {Fetched(q) : q \in Quotes},
          secondary \in {NotFetched} \cup {Fetched(q) : q \in Quotes} :
          /\ primary_data' = primary
          /\ secondary_data' = secondary
          /\ final_data' = get_accurate_trade_data(primary, secondary)
    /\ UNCHANGED <<reconcile_vars, validator_vars, limiter_vars, later_vars>>

NextAccurate == GetAccurateTradeData

SpecAccurate == InitAccurate /\ [][NextAccurate]_vars


---------------------------------------------------------------------------
(* validate_trade_data *)

\* (mutant: the lot size is left out, estimated_amount = price * volume)
EstimatedAmountNoLot(price, volume) == Frac(price.val * volume.val, LotSize)

\* estimated_amount = price * volume * 100
EstimatedAmount(price, volume) == Frac(price.val * volume.val, 1)

\* abs(amount - estimated_amount) / estimated_amount > 0.5, for a number
\* amount; with amount nan the comparison is False
OverTolerance(amount, estimated) ==
    /\ IsNum(amount)
    /\ 2 * Abs(amount.val * estimated.den - estimated.num) > estimated.num

\* `price and volume and price > 0 and volume > 0`, volume not None
PriceAndVolume(price, volume) == GT(price, 0) /\ GT(volume, 0)

\* the two early returns shared by every variant (volume <= 0; amount is
\* None or amount < 0), then the variant's own check of the amount
TradeChecks(volume, amount, price, mismatch) ==
    IF IsNone(volume) THEN TypeError
    ELSE IF LE(volume, 0) THEN Verdict(FALSE, "volume must be greater than 0")
    ELSE IF IsNone(amount) \/ LT(amount, 0)
    THEN Verdict(FALSE, "amount must not be negative or None")
    ELSE IF PriceAndVolume(price, volume) /\ mismatch
    THEN Verdict(FALSE, "amount does not match price and volume")
    ELSE Verdict(TRUE, "data is reasonable")

\* ImprovedStockAnalyzer.validate_trade_data and, with the same text,
\* EnhancedStockAnalyzerFixed.validate_trade_data
validate_trade_data(volume, amount, price) ==
    TradeChecks(volume, amount, price,
                /\ OverTolerance(amount, EstimatedAmount(price, volume))
                /\ amount # Num(0))

\* EnhancedStockAnalyzer.validate_trade_data
validate_trade_data_enhanced(volume, amount, price) ==
    TradeChecks(volume, amount, price,
                OverTolerance(amount, EstimatedAmount(price, volume)))

\* MultiSourceStockAnalyzer.validate_trade_data
validate_trade_data_multi(volume, amount, price) ==
    TradeChecks(volume, amount, price,
                \/ GT(amount, 0) /\ OverTolerance(amount, EstimatedAmount(price, volume))
                \/ amount = Num(0) /\ EstimatedAmount(price, volume).num > 0)

---------------------------------------------------------------------------
(* The validators as a state machine: a call is chosen, then made *)

DomesticClasses == {"ImprovedStockAnalyzer", "EnhancedStockAnalyzerFixed",
                    "EnhancedStockAnalyzer", "MultiSourceStockAnalyzer"}
ReasonablenessClasses == {"ImprovedStockAnalyzer", "MultiSourceStockAnalyzer",
                          "ImprovedUSStockAnalyzer"}

MaxTradeVolume == 2
MaxTradePrice == 4
MaxTradeAmount == 13

NotNumbers == {None, NaN}
NumbersTo(max) == {Num(n) : n \in -1..max}

TradeCalls ==
    [class : DomesticClasses, method : {"validate_trade_data"},
     volume : NotNumbers \cup NumbersTo(MaxTradeVolume),
     amount : NotNumbers \cup NumbersTo(MaxTradeAmount),
     price : NotNumbers \cup NumbersTo(MaxTradePrice)]

\* prices, changes and volumes on both sides of every threshold
ReasonablenessCalls ==
    [class : ReasonablenessClasses, method : {"validate_data_reasonableness"},
     data : [price : NotNumbers \cup
                     {Num(n) : n \in {-1, 0, 1, LotPrice(PriceCeiling),
                                      LotPrice(PriceCeiling) + 1,
                                      LotPrice(USPriceCeiling),
                                      LotPrice(USPriceCeiling) + 1}},
             volume : NotNumbers \cup {Num(-1), Num(0), Num(1)},
             amount : {Num(0)},
             change_pct : NotNumbers \cup {Missing} \cup
                          {Num(n) : n \in {-USChangeCeiling - 1, -USChangeCeiling,
                                           -ChangeCeiling - 1, -ChangeCeiling, 0,
                                           ChangeCeiling, ChangeCeiling + 1,
                                           USChangeCeiling, USChangeCeiling + 1}}]]

InitValidators ==
    /\ call \in TradeCalls \cup ReasonablenessCalls
    /\ ret = NoRet
    /\ sources_data = <<>> /\ consistency = NotCalled /\ report = NotRun
    /\ primary_data = NotFetched /\ secondary_data = NotFetched
    /\ final_data = NoFinalData
    /\ LimiterConstructed(MinRequestInterval)
    /\ LaterConstructed

ValidateTradeData ==
    /\ ret.status = "not called"
    /\ call.method = "validate_trade_data"
    /\ ret' = CASE call.class \in {"ImprovedStockAnalyzer", "EnhancedStockAnalyzerFixed"}
                     -> validate_trade_data(call.volume, call.amount, call.price)
                [] call.class = "EnhancedStockAnalyzer"
                     -> validate_trade_data_enhanced(call.volume, call.amount, call.price)
                [] call.class = "MultiSourceStockAnalyzer"
                     -> validate_trade_data_multi(call.volume, call.amount, call.price)
    /\ UNCHANGED <<call, reconcile_vars, accurate_vars, limiter_vars, later_vars>>

ValidateDataReasonableness ==
    /\ ret.status = "not called"
    /\ call.method = "validate_data_reasonableness"
    /\ ret' = CASE call.class = "ImprovedStockAnalyzer"
                     -> validate_data_reasonableness(call.data)
                [] call.class = "MultiSourceStockAnalyzer"
                     -> validate_data_reasonableness_multi(call.data)
                [] call.class = "ImprovedUSStockAnalyzer"
                     -> validate_data_reasonableness_us(call.data)
    /\ UNCHANGED <<call, reconcile_vars, accurate_vars, limiter_vars, later_vars>>

NextValidators == ValidateTradeData \/ ValidateDataReasonableness

SpecValidators == InitValidators /\ [][NextValidators]_vars

---------------------------------------------------------------------------
(* What the specification says of a quote, stated apart from the code *)

Positive(x) == x.tag = "float" /\ x.val > 0
Field(data, key) == IF data[key].tag = "missing" THEN Num(0) ELSE data[key]

\* 0 < price <= 1000, |changePct| <= 20, volume >= 0
QuoteIsReasonable(data) ==
    /\ Positive(Field(data, "price"))
    /\ Field(data, "price").val <= 1000 * 100
    /\ Field(data, "change_pct").tag = "float"
    /\ Field(data, "change_pct").val <= 20
    /\ Field(data, "change_pct").val >= -20
    /\ Field(data, "volume").tag = "float"
    /\ Field(data, "volume").val >= 0

\* impliedPrice = amount / (volume * 100) when amount > 0, the reported
\* price otherwise (as the price of one lot)
ImpliedPrice(data) ==
    IF Positive(Field(data, "amount"))
    THEN Frac(data.amount.val, data.volume.val)
    ELSE Frac(data.price.val, 1)
ReportedPrice(data) == Frac(data.price.val, 1)
FracMax(a, b) == IF FracLess(a, b) THEN b ELSE a

\* the source has a price and a volume, and its implied price deviates from
\* the reported one by less than 0.5 of the reported one
WithinTolerance(data) ==
    LET E == data.price.val * data.volume.val
        d == IF data.amount.val < E THEN E - data.amount.val ELSE data.amount.val - E
    IN  d < E - d
Survives(data) ==
    /\ Positive(Field(data, "price"))
    /\ Positive(Field(data, "volume"))
    /\ Positive(Field(data, "amount")) => WithinTolerance(data)

Survivors == {i \in 1..Len(sources_data) : Survives(sources_data[i].data)}
HasReturned == consistency.status = "returned"
WasCalled == consistency.status # "not called"
ReturnedNone(kind) ==
    /\ consistency.status = "returned"
    /\ consistency.selected_data = EmptyDict
    /\ consistency.method.kind = kind

\* every order in which the same sources can be inserted into the dict
InsertionOrders(s) ==
    LET n == Len(s)
        bijections == {f \in [1..n -> 1..n] :
                          \A a, b \in 1..n : a # b => f[a] # f[b]}
    IN  {[i \in 1..n |-> s[f[i]]] : f \in bijections}

---------------------------------------------------------------------------
(* C1..C6: reconciliation *)

\* C1: the quote returned as winner by validate_data_consistency passes the
\* reasonableness validator (0 < price <= 1000, |changePct| <= 20,
\* volume >= 0) on every path, the single-source path included.
C1_WinnerIsReasonable ==
    (HasReturned /\ consistency.selected_data # EmptyDict)
        => QuoteIsReasonable(consistency.selected_data)

\* C2: reconciling the three demo sources keeps all three and returns the
\* 249.52 quote with a method naming 3 sources.
C2_DemoSourcesReconciled ==
    (WasCalled /\ sources_data = DemoSources)
        => /\ HasReturned
           /\ consistency.selected_data = DemoSources[3].data
           /\ consistency.method.kind = "Selected from"
           /\ consistency.method.n = 3

\* C3: the winner and the method are the same for every order in which the
\* sources are inserted into the input map.
C3_OrderIndependent ==
    WasCalled =>
        \A p \in InsertionOrders(sources_data) :
            validate_data_consistency(p) = consistency

SourceIsValid(data) == QuoteIsReasonable(data) /\ Survives(data)
ValidOnes == {i \in 1..Len(sources_data) : SourceIsValid(sources_data[i].data)}
C6_ReturnsNoneNeverRaises ==
    WasCalled =>
        /\ HasReturned
        /\ Len(sources_data) = 0 => ReturnedNone("No data available")
        /\ (Len(sources_data) >= 2 /\ Survivors = {})
              => ReturnedNone("No consistent data found")


---------------------------------------------------------------------------
(* C7..C10: quality label and validators *)

\* C7: whenever the quality label of a result is 'high', at least two
\* sources were obtained and each passed reasonableness and the
\* price/turnover consistency check; a result built from a single source is
\* never labelled high.  (get_accurate_trade_data's data_quality, and the
\* quality analyze_stock prints.)
C7_HighNeedsTwoGoodSources ==
    /\ (final_data.status = "returned" /\ final_data.data_quality = "high") =>
          /\ primary_data.fetched /\ secondary_data.fetched
          /\ SourceIsValid(primary_data.data)
          /\ SourceIsValid(secondary_data.data)
    /\ report.quality = "high" => Cardinality(ValidOnes) >= 2

IsTradeCall == call.method = "validate_trade_data"
IsReasonablenessCall == call.method = "validate_data_reasonableness"
Made == ret.status # "not called"

\* C8: validate_trade_data rejects a turnover amount of 0 whenever
\* price > 0 and volume > 0, in every domestic-market analyzer variant.
C8_ZeroTurnoverRejected ==
    (Made /\ IsTradeCall /\ call.class \in DomesticClasses
        /\ Positive(call.price) /\ Positive(call.volume) /\ call.amount = Num(0))
    => (ret.status = "returned" /\ ~ret.ok)

CeilingOfPrice == IF call.class = "ImprovedUSStockAnalyzer" THEN 10000 ELSE 1000
CeilingOfMove == IF call.class = "ImprovedUSStockAnalyzer" THEN 50 ELSE 20
NoNullField(data) ==
    data.price.tag # "None" /\ data.volume.tag # "None" /\ data.change_pct.tag # "None"
C10_AcceptsExactlyInRange ==
    (Made /\ IsReasonablenessCall /\ NoNullField(call.data))
    => /\ ret.status = "returned"
       /\ ret.ok <=>
            /\ Positive(Field(call.data, "price"))
            /\ Field(call.data, "price").val <= CeilingOfPrice * 100
            /\ Field(call.data, "change_pct").tag = "float"
            /\ Field(call.data, "change_pct").val <= CeilingOfMove
            /\ Field(call.data, "change_pct").val >= -CeilingOfMove
            /\ Field(call.data, "volume").tag = "float"
            /\ Field(call.data, "volume").val >= 0


---------------------------------------------------------------------------
(* The indicator functions of ImprovedStockAnalyzer                        *)
(*                                                                         *)
(* talib (RSI, MACD, BBANDS) is a library outside the repository: the last *)
(* element of each array it returns is any float, or the call raises.      *)

\* float('inf') (val 1) and float('-inf') (val -1)
Inf == [tag |-> "inf", val |-> 1]
NegInf == [tag |-> "inf", val |-> -1]

\* x < n and x > n for a float that is a number, an infinity or nan
FloatLess(x, n) == (x.tag = "float" /\ x.val < n) \/ (x.tag = "inf" /\ x.val < 0)
FloatGreater(x, n) == (x.tag = "float" /\ x.val > n) \/ (x.tag = "inf" /\ x.val > 0)

\* np.isnan(x)
IsNaN(x) == x.tag = "nan"

\* [p for p in close_prices if p is not None and
\*                             not (isinstance(p, float) and np.isnan(p))]
NotNoneNotNaN(p) == ~IsNone(p) /\ ~IsNaN(p)
clean_prices(close_prices) == SelectSeq(close_prices, NotNoneNotNaN)

\* what a talib call did: it raised, or out is the last element of each
\* array it returned
LibraryOutcome(raises, out) == [raises |-> raises, out |-> out]

\* talib was not called
NoLibraryCall == LibraryOutcome(FALSE, None)

\* what an indicator function returned, with the series it handed to talib
\* (ran is FALSE when talib was not called) and what talib answered
IndicatorResult(value, ran, computed_on, library) ==
    [status |-> "returned", value |-> value, ran |-> ran,
     computed_on |-> computed_on, library |-> library]

\* (mutant: a nan is handed on)
KeepNaN(x) == x

\* x if not np.isnan(x) else None
NoneIfNaN(x) == IF IsNaN(x) THEN None ELSE x

NoneTriple == <<None, None, None>>

\* ImprovedStockAnalyzer.safe_rsi_calculation(close_prices, period), with
\* talib.RSI answering library
safe_rsi_calculation(close_prices, period, library) ==
    IF Len(close_prices) < period + 1
    THEN IndicatorResult(None, FALSE, <<>>, NoLibraryCall)
    ELSE IF Len(clean_prices(close_prices)) < period + 1
    THEN IndicatorResult(None, FALSE, <<>>, NoLibraryCall)
    ELSE IF library.raises
    THEN IndicatorResult(None, TRUE, clean_prices(close_prices), library)
    ELSE LET current_rsi == NoneIfNaN(library.out)
         IN  IF ~IsNone(current_rsi)
                /\ (FloatLess(current_rsi, 0) \/ FloatGreater(current_rsi, 100))
             THEN IndicatorResult(None, TRUE, clean_prices(close_prices), library)
             ELSE IndicatorResult(current_rsi, TRUE, clean_prices(close_prices), library)

\* set(close_prices): the distinct entries (one nan object, np.nan, is
\* assumed; it is only ever compared with 1 when a number is present too)
DistinctPrices(close_prices) == {close_prices[i] : i \in 1..Len(close_prices)}

\* abs(final_macd) < 1e-10, the model's numbers being integers
NearZero(x) == x.tag = "float" /\ x.val = 0

\* ImprovedStockAnalyzer.safe_macd_calculation(close_prices, min_periods)
\* (EnhancedStockAnalyzerFixed has the same text), with talib.MACD
\* answering library
safe_macd_calculation(close_prices, min_periods, library) ==
    IF Len(close_prices) < min_periods
    THEN IndicatorResult(NoneTriple, FALSE, <<>>, NoLibraryCall)
    ELSE IF Len(clean_prices(close_prices)) < min_periods
    THEN IndicatorResult(NoneTriple, FALSE, <<>>, NoLibraryCall)
    ELSE IF library.raises
    THEN IndicatorResult(NoneTriple, TRUE, clean_prices(close_prices), library)
    ELSE LET final_macd == NoneIfNaN(library.out[1])
             final_signal == NoneIfNaN(library.out[2])
             final_hist == NoneIfNaN(library.out[3])
         IN  IF ~IsNone(final_macd) /\ NearZero(final_macd)
                /\ Cardinality(DistinctPrices(close_prices)) > 1
             THEN IndicatorResult(NoneTriple, TRUE, clean_prices(close_prices), library)
             ELSE IndicatorResult(<<final_macd, final_signal, final_hist>>, TRUE,
                                  clean_prices(close_prices), library)

\* ImprovedStockAnalyzer.safe_bollinger_bands(close_prices, period), with
\* talib.BBANDS answering library
safe_bollinger_bands(close_prices, period, library) ==
    IF Len(close_prices) < period
    THEN IndicatorResult(NoneTriple, FALSE, <<>>, NoLibraryCall)
    ELSE IF Len(clean_prices(close_prices)) < period
    THEN IndicatorResult(NoneTriple, FALSE, <<>>, NoLibraryCall)
    ELSE IF library.raises
    THEN IndicatorResult(NoneTriple, TRUE, clean_prices(close_prices), library)
    ELSE IndicatorResult(<<NoneIfNaN(library.out[1]), NoneIfNaN(library.out[2]),
                           NoneIfNaN(library.out[3])>>,
                         TRUE, clean_prices(close_prices), library)


---------------------------------------------------------------------------
(* ImprovedStockAnalyzer.calculate_sharpe_ratio                            *)
(*                                                                         *)
(* A return is carried in hundredths (the model's 1 is 0.01), and so is    *)
(* risk_free_rate.  Huge is a finite float near the largest double         *)
(* (1e308): it passes np.isfinite, and a sum of two of them, its product   *)
(* with 252 and its square overflow to inf.                                *)

Huge == [tag |-> "huge", val |-> 1]

\* np.isfinite(x), after np.array(returns, dtype=np.float64) has turned
\* None into nan
IsFinite(x) == x.tag = "float" \/ x.tag = "huge"
finite_returns(returns) == SelectSeq(returns, IsFinite)

HasHuge(seq) == \E i \in 1..Len(seq) : seq[i].tag = "huge"

\* a <= b in np.sort's order
ReturnLE(a, b) == b.tag = "huge" \/ (a.tag = "float" /\ a.val <= b.val)

RECURSIVE InsertSorted(_, _)
InsertSorted(x, sorted) ==
    IF sorted = <<>> THEN <<x>>
    ELSE IF ReturnLE(x, Head(sorted)) THEN <<x>> \o sorted
    ELSE <<Head(sorted)>> \o InsertSorted(x, Tail(sorted))

\* np.sort(returns)
RECURSIVE SortReturns(_)
SortReturns(seq) ==
    IF seq = <<>> THEN <<>> ELSE InsertSorted(Head(seq), SortReturns(Tail(seq)))

RECURSIVE SumOf(_)
SumOf(seq) == IF seq = <<>> THEN 0 ELSE Head(seq).val + SumOf(Tail(seq))

RECURSIVE SumOfSquares(_)
SumOfSquares(seq) ==
    IF seq = <<>> THEN 0 ELSE Head(seq).val * Head(seq).val + SumOfSquares(Tail(seq))

\* the returns avg_return is the mean of (lines 243-253): the sorted returns
\* without the lowest and highest 5% when there are more than 10 of them
AveragedReturns(returns) ==
    LET trim_start == (5 * Len(returns)) \div 100
        trim_end == (95 * Len(returns)) \div 100
    IN  IF Len(returns) > 10 /\ trim_end > trim_start
        THEN SubSeq(SortReturns(returns), trim_start + 1, trim_end)
        ELSE returns

\* n * n * np.var(returns), for returns without Huge
ScaledVariance(returns) ==
    Len(returns) * SumOfSquares(returns) - SumOf(returns) * SumOf(returns)

\* a returned sharpe: the number num / sqrt(den_sq)
SharpeValue(num, den_sq) == [tag |-> "sharpe", val |-> 0, num |-> num, den_sq |-> den_sq]

\* (annual_return - risk_free_rate) / volatility, for returns without Huge:
\*   annual_return - risk_free_rate = (252 * sum(averaged) - rf * m) / (100 * m)
\*   volatility = sqrt(252 * ScaledVariance) / (100 * n)
SharpeOf(returns, risk_free_rate) ==
    LET averaged == AveragedReturns(returns)
        m == Len(averaged)
    IN  SharpeValue((252 * SumOf(averaged) - risk_free_rate * m) * Len(returns),
                    252 * ScaledVariance(returns) * m * m)

\* abs(sharpe) > 10
SharpeOverLimit(sharpe) == sharpe.num * sharpe.num > 100 * sharpe.den_sq

SharpeResult(value, filtered) ==
    [status |-> "returned", value |-> value, filtered |-> filtered]

calculate_sharpe_ratio(returns, risk_free_rate) ==
    IF Len(returns) = 0 THEN SharpeResult(None, <<>>)
    ELSE LET filtered == finite_returns(returns)
         IN  IF Len(filtered) = 0 THEN SharpeResult(None, filtered)
             ELSE IF HasHuge(filtered)
             THEN \* a single return has np.std 0; otherwise the squared
                  \* deviations overflow and volatility is inf
                  IF Len(filtered) = 1 THEN SharpeResult(None, filtered)
                  ELSE IF HasHuge(AveragedReturns(filtered))
                  THEN \* annual_return is inf: inf / inf is nan, and
                       \* abs(nan) > 10 is False
                       SharpeResult(NaN, filtered)
                  ELSE SharpeResult(SharpeValue(0, 1), filtered)
             ELSE IF ScaledVariance(filtered) = 0 THEN SharpeResult(None, filtered)
             ELSE IF SharpeOverLimit(SharpeOf(filtered, risk_free_rate))
             THEN SharpeResult(None, filtered)
             ELSE SharpeResult(SharpeOf(filtered, risk_free_rate), filtered)


---------------------------------------------------------------------------
(* The indicator functions as a state machine: a call is chosen, then made *)

MaxPrices == 4
MaxPeriod == 2
MaxReturns == 3

\* two prices, and every kind of entry that is not a finite number
PriceValues == {Num(1), Num(2), None, NaN, Inf}
PriceSeries == UNION {[1..n -> PriceValues] : n \in 0..MaxPrices}

\* returns of -5%, 0, 1% and 6%, and every kind of entry that is not one
ReturnValues == {Num(-5), Num(0), Num(1), Num(6), None, NaN, Inf, Huge}
ShortReturns == UNION {[1..n -> ReturnValues] : n \in 0..MaxReturns}

\* eleven returns, the shortest series the mean is trimmed for: j times a,
\* then b
LongReturnValues == {Num(-1), Num(0), Num(1), Huge}
LongReturns ==
    {[i \in 1..11 |-> IF i <= j THEN a ELSE b] :
        j \in 0..11, a \in LongReturnValues, b \in LongReturnValues}

\* risk_free_rate=0.03
RiskFreeRate == 3

IndicatorCalls ==
    [class : {"ImprovedStockAnalyzer"},
     method : {"safe_rsi_calculation", "safe_macd_calculation", "safe_bollinger_bands"},
     close_prices : PriceSeries, period : 1..MaxPeriod]
SharpeCalls ==
    [class : {"ImprovedStockAnalyzer"}, method : {"calculate_sharpe_ratio"},
     returns : ShortReturns \cup LongReturns, risk_free_rate : {RiskFreeRate}]

\* what talib.RSI may answer
RsiOutcomes ==
    {LibraryOutcome(TRUE, NaN)}
    \cup {LibraryOutcome(FALSE, x) :
            x \in {NaN, Inf, NegInf, Num(-1), Num(0), Num(50), Num(100), Num(101)}}

\* what talib.MACD and talib.BBANDS may answer
TripleValues == {NaN, Num(0), Num(1)}
TripleOutcomes ==
    {LibraryOutcome(TRUE, <<NaN, NaN, NaN>>)}
    \cup {LibraryOutcome(FALSE, <<x, y, z>>) :
            x \in TripleValues, y \in TripleValues, z \in TripleValues}

InitIndicators ==
    /\ call \in IndicatorCalls \cup SharpeCalls
    /\ ret = NoRet
    /\ sources_data = <<>> /\ consistency = NotCalled /\ report = NotRun
    /\ primary_data = NotFetched /\ secondary_data = NotFetched
    /\ final_data = NoFinalData
    /\ LimiterConstructed(MinRequestInterval)
    /\ LaterConstructed

SafeRsiCalculation ==
    /\ ret.status = "not called"
    /\ call.method = "safe_rsi_calculation"
    /\ \E library \in RsiOutcomes :
          ret' = safe_rsi_calculation(call.close_prices, call.period, library)
    /\ UNCHANGED <<call, reconcile_vars, accurate_vars, limiter_vars, later_vars>>

SafeMacdCalculation ==
    /\ ret.status = "not called"
    /\ call.method = "safe_macd_calculation"
    /\ \E library \in TripleOutcomes :
          ret' = safe_macd_calculation(call.close_prices, call.period, library)
    /\ UNCHANGED <<call, reconcile_vars, accurate_vars, limiter_vars, later_vars>>

SafeBollingerBands ==
    /\ ret.status = "not called"
    /\ call.method = "safe_bollinger_bands"
    /\ \E library \in TripleOutcomes :
          ret' = safe_bollinger_bands(call.close_prices, call.period, library)
    /\ UNCHANGED <<call, reconcile_vars, accurate_vars, limiter_vars, later_vars>>

CalculateSharpeRatio ==
    /\ ret.status = "not called"
    /\ call.method = "calculate_sharpe_ratio"
    /\ ret' = calculate_sharpe_ratio(call.returns, call.risk_free_rate)
    /\ UNCHANGED <<call, reconcile_vars, accurate_vars, limiter_vars, later_vars>>

NextIndicators ==
    \/ SafeRsiCalculation
    \/ SafeMacdCalculation
    \/ SafeBollingerBands
    \/ CalculateSharpeRatio

SpecIndicators == InitIndicators /\ [][NextIndicators]_vars


---------------------------------------------------------------------------
(* C11..C15: the indicator functions *)

IsCallOf(method) == Made /\ call.method = method
IsAbsent(x) == x.tag = "None"
IsNumber(x) == x.tag = "float"
InRsiRange(x) == IsNumber(x) /\ x.val >= 0 /\ x.val <= 100

\* C11: every RSI value safe_rsi_calculation returns lies in [0, 100];
\* whenever the value talib computed is NaN or outside that range the
\* function returns None instead.
C11_RsiInRangeOrAbsent ==
    IsCallOf("safe_rsi_calculation") =>
        /\ ret.status = "returned"
        /\ IsAbsent(ret.value) \/ InRsiRange(ret.value)
        /\ (ret.ran /\ ~ret.library.raises /\ ~InRsiRange(ret.library.out))
              => IsAbsent(ret.value)

\* C11's case: talib answered 101 and the function returned None
C11_Witness ==
    /\ IsCallOf("safe_rsi_calculation")
    /\ ret.ran /\ ~ret.library.raises
    /\ ret.library.out = Num(101)
    /\ IsAbsent(ret.value)

\* C12: the triples of safe_macd_calculation and safe_bollinger_bands are
\* all-or-nothing: either all three components are numbers or all three
\* are None, whatever NaN components the library computation yields.
C12_TripleAllOrNothing ==
    (IsCallOf("safe_macd_calculation") \/ IsCallOf("safe_bollinger_bands")) =>
        \/ \A i \in 1..3 : IsNumber(ret.value[i])
        \/ \A i \in 1..3 : IsAbsent(ret.value[i])

\* the usable prices: the entries that are finite numbers
UsablePrices == SelectSeq(call.close_prices, IsNumber)
MinimumPrices ==
    IF call.method = "safe_rsi_calculation" THEN call.period + 1 ELSE call.period
ValueIsAbsent ==
    IF call.method = "safe_rsi_calculation" THEN IsAbsent(ret.value)
    ELSE ret.value = NoneTriple

\* C13: safe_rsi_calculation, safe_macd_calculation and
\* safe_bollinger_bands return absent whenever fewer usable prices than the
\* minimum (period + 1, min_periods, period) are left after stripping every
\* None, NaN, +inf and -inf; stripped entries never count toward the minimum
\* and never reach the computation.
C13_NonFiniteStripped ==
    (IsCallOf("safe_rsi_calculation") \/ IsCallOf("safe_macd_calculation")
        \/ IsCallOf("safe_bollinger_bands")) =>
        /\ Len(UsablePrices) < MinimumPrices => (ValueIsAbsent /\ ~ret.ran)
        /\ ret.ran => \A i \in 1..Len(ret.computed_on) : IsNumber(ret.computed_on[i])

IsConstant(series) == Cardinality({series[i] : i \in 1..Len(series)}) <= 1

\* C14: when the final MACD value satisfies |value| < 1e-10,
\* safe_macd_calculation returns the triple if and only if the series the
\* computation ran on (the input without its None/NaN entries) is constant;
\* for a non-constant series it returns (None, None, None).
C14_NearZeroKeptIffConstant ==
    (IsCallOf("safe_macd_calculation") /\ ret.ran /\ ~ret.library.raises
        /\ ret.library.out[1] = Num(0))
    => (ret.value # NoneTriple <=> IsConstant(ret.computed_on))

FiniteReturns == SelectSeq(call.returns, IsFinite)

\* C15: calculate_sharpe_ratio returns None when the filtered return series
\* is empty, when its volatility is zero (all its returns are equal) and
\* when the computed |sharpe| exceeds 10; every value it does return
\* satisfies |sharpe| <= 10.
C15_SharpeAbsentOrWithinTen ==
    IsCallOf("calculate_sharpe_ratio") =>
        /\ ret.status = "returned"
        /\ Len(FiniteReturns) = 0 => IsAbsent(ret.value)
        /\ IsConstant(FiniteReturns) => IsAbsent(ret.value)
        /\ ~IsAbsent(ret.value) =>
              /\ ret.value.tag = "sharpe"
              /\ ret.value.num * ret.value.num <= 100 * ret.value.den_sq


---------------------------------------------------------------------------
(* safe_float_conversion as a state machine: a call is chosen, then made *)

MaxChars == 3

Characters == {"1", "2", ",", "%", "yi", "wan", "N", "/", "A"}
Strings == UNION {[1..n -> Characters] : n \in 0..MaxChars}

ConversionValues ==
    {Str(chars) : chars \in Strings}
    \cup {None, NaN, Inf, BigInt, Object, Num(0), Num(12)}
ConversionCalls ==
    [class : DomesticClasses, method : {"safe_float_conversion"},
     value : ConversionValues, default : {Num(0), Num(-1), None}]

ConversionResult(value) ==
    IF value.tag = "raise" THEN [status |-> "raised", value |-> None]
    ELSE [status |-> "returned", value |-> value]

InitConversion ==
    /\ call \in ConversionCalls
    /\ ret = NoRet
    /\ sources_data = <<>> /\ consistency = NotCalled /\ report = NotRun
    /\ primary_data = NotFetched /\ secondary_data = NotFetched
    /\ final_data = NoFinalData
    /\ LimiterConstructed(MinRequestInterval)
    /\ LaterConstructed

SafeFloatConversion ==
    /\ ret.status = "not called"
    /\ call.method = "safe_float_conversion"
    /\ ret' = ConversionResult(safe_float_conversion(call.value, call.default))
    /\ UNCHANGED <<call, reconcile_vars, accurate_vars, limiter_vars, later_vars>>

NextConversion == SafeFloatConversion

SpecConversion == InitConversion /\ [][NextConversion]_vars

---------------------------------------------------------------------------
(* C16, C17: safe_float_conversion *)

IsStr(x) == x.tag = "str"
IsEmptyOrNA(x) == IsStr(x) /\ (x.val = <<>> \/ x.val = <<"N", "/", "A">>)

\* C16: safe_float_conversion is total: for every input (None, empty
\* string, "N/A", any other string, any number, any other object) it returns
\* the default or a parsed float and never raises; for None, "" and "N/A" it
\* returns exactly the default.
C16_ConversionIsTotal ==
    IsCallOf("safe_float_conversion") =>
        /\ ret.status = "returned"
        /\ (IsAbsent(call.value) \/ IsEmptyOrNA(call.value))
              => ret.value = call.default

\* the digits a string starts with, when it is digits then one character
DigitsThen(chars, c) ==
    /\ Len(chars) >= 2
    /\ chars[Len(chars)] = c
    /\ \A i \in 1..(Len(chars) - 1) : chars[i] \in Digits
LeadingDigits(chars) == SubSeq(chars, 1, Len(chars) - 1)
IsTimes(x, n, factor) == IsNumber(x) /\ x.val % factor = 0 /\ x.val \div factor = n

\* C17: safe_float_conversion interprets magnitude suffixes: a numeric
\* string x followed by "yi" converts to x * 10^8 and followed by "wan" to
\* x * 10^4, while a thousand separator or a percent sign after the number
\* is stripped without changing the value.
C17_MagnitudeSuffixes ==
    (IsCallOf("safe_float_conversion") /\ IsStr(call.value)) =>
        LET chars == call.value.val
            x == DecimalValue(LeadingDigits(chars))
        IN  /\ DigitsThen(chars, "yi") => IsTimes(ret.value, x, 100000000)
            /\ DigitsThen(chars, "wan") => IsTimes(ret.value, x, 10000)
            /\ (DigitsThen(chars, ",") \/ DigitsThen(chars, "%"))
                  => IsTimes(ret.value, x, 1)


---------------------------------------------------------------------------
(* C18, C19: the quality label of get_accurate_trade_data *)

HasFinalData == final_data.status = "returned"
NoSourceYielded == ~primary_data.fetched /\ ~secondary_data.fetched

\* C18 (as stated): the quality label of every result of
\* get_accurate_trade_data is one of {high, medium, low, none}, and it is
\* 'none' exactly when no source yielded data.
C18_LabelNoneIffNoSource ==
    HasFinalData =>
        /\ final_data.data_quality \in {"high", "medium", "low", "none"}
        /\ final_data.data_quality = "none" <=> NoSourceYielded

\* C18 (amended): the quality label of every result of
\* get_accurate_trade_data is one of {high, medium, low, unknown}, and it is
\* 'unknown' (with data_source 'none') exactly when no source yielded data.
C18_LabelUnknownIffNoSource ==
    HasFinalData =>
        /\ final_data.data_quality \in {"high", "medium", "low", "unknown"}
        /\ final_data.data_quality = "unknown" <=> NoSourceYielded
        /\ final_data.data_source = "none" <=> NoSourceYielded

\* C18's case: no source yielded data and a result was returned
C18_Witness ==
    /\ HasFinalData /\ NoSourceYielded
    /\ final_data.data_quality = "unknown"

\* C19: whenever the returned result carries a warning, or only one source
\* was available, its quality label is 'low', never 'medium' or 'high'.
C19_WarningOrOneSourceIsLow ==
    (HasFinalData
        /\ (final_data.warning # ""
            \/ primary_data.fetched # secondary_data.fetched))
    => final_data.data_quality = "low"


---------------------------------------------------------------------------
(* AkshareEnhanced.wait_for_rate_limit and                                 *)
(* StockDataFetcher._wait_for_rate_limit (the same text), called by        *)
(* several threads on one instance.  Time is counted in seconds; the clock *)
(* never runs backwards.                                                   *)

MaxTime == 6
MaxOversleep == 1

\* (mutant: the lock does not keep a second thread out)
LockIgnored == TRUE

\* self.lock is not held
LockIsFree == lock = NoThread

other_vars == <<reconcile_vars, accurate_vars, validator_vars, later_vars>>

InitRateLimit ==
    /\ sources_data = <<>> /\ consistency = NotCalled /\ report = NotRun
    /\ primary_data = NotFetched /\ secondary_data = NotFetched
    /\ final_data = NoFinalData
    /\ call = NoCall /\ ret = NoRet
    /\ \E interval \in {MinRequestInterval, RequestInterval} :
          LimiterConstructed(interval)
    /\ LaterConstructed

\* thread t calls wait_for_rate_limit() and reaches `with self.lock`
CallWait(t) ==
    /\ pc[t] = "idle"
    /\ pc' = [pc EXCEPT ![t] = "acquire"]
    /\ UNCHANGED <<min_request_interval, last_request_time, lock, sleep_time, now,
                   recorded, other_vars>>

\* `with self.lock:` the lock is acquired once it is free
Acquire(t) ==
    /\ pc[t] = "acquire"
    /\ LockIsFree
    /\ lock' = t
    /\ pc' = [pc EXCEPT ![t] = "locked"]
    /\ UNCHANGED <<min_request_interval, last_request_time, sleep_time, now,
                   recorded, other_vars>>

\* current_time = time.time(); time_since_last = current_time -
\* self.last_request_time; if time_since_last < self.min_request_interval:
\* sleep_time = self.min_request_interval - time_since_last
CheckInterval(t) ==
    /\ pc[t] = "locked"
    /\ LET current_time == now
           time_since_last == current_time - last_request_time
       IN  IF time_since_last < min_request_interval
           THEN /\ sleep_time' = [sleep_time EXCEPT
                                    ![t] = min_request_interval - time_since_last]
                /\ pc' = [pc EXCEPT ![t] = "sleep"]
           ELSE /\ pc' = [pc EXCEPT ![t] = "stamp"]
                /\ UNCHANGED sleep_time
    /\ UNCHANGED <<min_request_interval, last_request_time, lock, now, recorded,
                   other_vars>>

\* time.sleep(sleep_time): the clock has advanced by at least sleep_time
\* when the call returns
Sleep(t) ==
    /\ pc[t] = "sleep"
    /\ \E over \in 0..MaxOversleep : now' = now + sleep_time[t] + over
    /\ pc' = [pc EXCEPT ![t] = "stamp"]
    /\ UNCHANGED <<min_request_interval, last_request_time, lock, sleep_time,
                   recorded, other_vars>>

\* self.last_request_time = time.time()
Stamp(t) ==
    /\ pc[t] = "stamp"
    /\ last_request_time' = now
    /\ recorded' = Append(recorded, now)
    /\ pc' = [pc EXCEPT ![t] = "release"]
    /\ UNCHANGED <<min_request_interval, lock, sleep_time, now, other_vars>>

\* the end of the with block releases the lock and the call returns
Release(t) ==
    /\ pc[t] = "release"
    /\ lock' = NoThread
    /\ pc' = [pc EXCEPT ![t] = "done"]
    /\ UNCHANGED <<min_request_interval, last_request_time, sleep_time, now,
                   recorded, other_vars>>

\* time passes
Tick ==
    /\ now < MaxTime
    /\ now' = now + 1
    /\ UNCHANGED <<min_request_interval, last_request_time, lock, pc, sleep_time,
                   recorded, other_vars>>

ThreadStep(t) ==
    \/ Acquire(t)
    \/ CheckInterval(t)
    \/ Sleep(t)
    \/ Stamp(t)
    \/ Release(t)

NextRateLimit ==
    \/ \E t \in Threads : CallWait(t)
    \/ \E t \in Threads : ThreadStep(t)
    \/ Tick

\* a thread that can take its next step eventually takes it: a runnable
\* thread is scheduled, a sleep ends, and a free lock is handed to a waiter
SpecRateLimit ==
    /\ InitRateLimit
    /\ [][NextRateLimit]_vars
    /\ \A t \in Threads : WF_vars(ThreadStep(t))

---------------------------------------------------------------------------
(* C20: the rate limiter under concurrent callers *)

InCriticalSection(t) == pc[t] \in {"locked", "sleep", "stamp", "release"}

MutuallyExclusive ==
    \A t \in Threads : \A u \in Threads :
        (InCriticalSection(t) /\ InCriticalSection(u)) => t = u

RecordedApart ==
    \A i \in 2..Len(recorded) : recorded[i] - recorded[i - 1] >= min_request_interval

\* C20: with several threads calling wait_for_rate_limit on one instance,
\* the read-check-sleep-update of last_request_time is mutually exclusive,
\* every caller eventually returns, and the last_request_time recorded by
\* each caller is at least min_request_interval later than the one recorded
\* by the previous caller (sleep lasting at least the requested duration).
C20_RateLimitSerialized ==
    /\ [](MutuallyExclusive /\ RecordedApart)
    /\ \A t \in Threads : (pc[t] = "acquire") ~> (pc[t] = "done")

\* C20's case: every thread has called and returned, and the second caller
\* had to sleep through the whole interval
C20_Witness ==
    /\ \A t \in Threads : pc[t] = "done"
    /\ Len(recorded) = MaxThreads
    /\ recorded[2] = recorded[1] + min_request_interval
    /\ \E t \in Threads : sleep_time[t] = min_request_interval

---------------------------------------------------------------------------
(* StockAnalysisValidator (validation_framework.py): the table of known    *)
(* stock codes, the lists of known wrong codes, and the check made before  *)
(* an analysis                                                             *)

\* (mutant: every code counts as given, None and '' included)
TruthyAlways(code) == TRUE

\* `if provided_code:` and `if correct_code:` hold for a non-empty string,
\* not for None and not for ''
Truthy(code) == code # NoCode /\ code # ""

\* self.known_codes.get(target_name)
KnownCode(codes, target_name) ==
    IF target_name \in DOMAIN codes THEN codes[target_name] ELSE NoCode

Elements(list) == {list[i] : i \in DOMAIN list}

\* the tuple (bool, str) that validate_before_analysis returns
Validation(ok, code) == [status |-> "returned", ok |-> ok, code |-> code]

validate_before_analysis(codes, wrong_codes, target_name, provided_code) ==
    LET correct_code == KnownCode(codes, target_name)
    IN  IF /\ target_name \in DOMAIN wrong_codes
           /\ provided_code \in Elements(wrong_codes[target_name])
        THEN IF Truthy(correct_code)
             THEN Validation(FALSE, correct_code)
             ELSE Validation(FALSE, NoCode)
        ELSE IF Truthy(provided_code) /\ Truthy(correct_code)
                /\ provided_code # correct_code
        THEN Validation(FALSE, correct_code)
        ELSE IF ~Truthy(provided_code)
        THEN IF Truthy(correct_code)
             THEN Validation(TRUE, correct_code)
             ELSE Validation(FALSE, NoCode)
        ELSE IF correct_code = provided_code
        THEN Validation(TRUE, provided_code)
        ELSE Validation(FALSE, correct_code)

get_correct_code(codes, target_name) == KnownCode(codes, target_name)

\* self.known_codes[name] = code
add_known_pair(codes, name, code) ==
    [n \in DOMAIN codes \cup {name} |-> IF n = name THEN code ELSE codes[n]]

\* if name not in self.known_wrong_codes: self.known_wrong_codes[name] = []
\* if wrong_code not in self.known_wrong_codes[name]: append it
add_wrong_code(wrong_codes, name, wrong_code) ==
    LET list == IF name \in DOMAIN wrong_codes THEN wrong_codes[name] ELSE <<>>
    IN  [n \in DOMAIN wrong_codes \cup {name} |->
            IF n = name
            THEN IF wrong_code \in Elements(list)
                 THEN list
                 ELSE Append(list, wrong_code)
            ELSE wrong_codes[n]]

\* the names and codes the calls are made with: a known name without wrong
\* codes, the known name that has them, and a name the tables lack; the two
\* correct codes, a listed wrong code, a code in neither table, '' and None
Names == {"BYD", "Yitang", "Test"}
Codes == {"002594", "688729", "300346", "123456"}
ProvidedCodes == Codes \cup {"", NoCode}
WrongCodes == {"300346", "123456"}

FrameworkCall(method, name, code) ==
    [class |-> "StockAnalysisValidator", method |-> method, name |-> name,
     code |-> code]

unframework_vars == <<reconcile_vars, accurate_vars, limiter_vars, retry_vars,
                      decorator_vars, baostock_vars>>

InitFramework ==
    /\ sources_data = <<>> /\ consistency = NotCalled /\ report = NotRun
    /\ primary_data = NotFetched /\ secondary_data = NotFetched
    /\ final_data = NoFinalData
    /\ call = NoCall /\ ret = NoRet
    /\ LimiterConstructed(MinRequestInterval)
    /\ LaterConstructed

ValidateBeforeAnalysis ==
    /\ \E name \in Names, code \in ProvidedCodes :
          /\ call' = FrameworkCall("validate_before_analysis", name, code)
          /\ ret' = validate_before_analysis(known_codes, known_wrong_codes,
                                             name, code)
    /\ UNCHANGED <<framework_vars, unframework_vars>>

GetCorrectCode ==
    /\ \E name \in Names :
          /\ call' = FrameworkCall("get_correct_code", name, NoCode)
          /\ ret' = [status |-> "returned",
                     code |-> get_correct_code(known_codes, name)]
    /\ UNCHANGED <<framework_vars, unframework_vars>>

AddKnownPair ==
    /\ \E name \in Names, code \in Codes :
          /\ call' = FrameworkCall("add_known_pair", name, code)
          /\ known_codes' = add_known_pair(known_codes, name, code)
          /\ latest_pair' = [n \in DOMAIN latest_pair \cup {name} |->
                                IF n = name THEN code ELSE latest_pair[n]]
    /\ ret' = NoRet
    /\ UNCHANGED <<known_wrong_codes, unframework_vars>>

AddWrongCode ==
    /\ \E name \in Names, wrong_code \in WrongCodes :
          /\ call' = FrameworkCall("add_wrong_code", name, wrong_code)
          /\ known_wrong_codes' = add_wrong_code(known_wrong_codes, name,
                                                 wrong_code)
    /\ ret' = NoRet
    /\ UNCHANGED <<known_codes, latest_pair, unframework_vars>>

NextFramework ==
    \/ ValidateBeforeAnalysis
    \/ GetCorrectCode
    \/ AddKnownPair
    \/ AddWrongCode

SpecFramework == InitFramework /\ [][NextFramework]_vars

---------------------------------------------------------------------------
(* C21, C22: the validation framework *)

IsFresh == known_codes = FreshKnownCodes /\ known_wrong_codes = FreshKnownWrongCodes

IsValidation == call # NoCall /\ call.method = "validate_before_analysis"

\* C21: on a freshly constructed StockAnalysisValidator, for a name in the
\* known table with correct code k: validate_before_analysis(name, k)
\* returns (True, k); with a given code other than k it returns (False, k);
\* without a code it returns (True, k); and for a name absent from the
\* table it returns (False, None), with or without a code.
C21_FreshValidatorAnswers ==
    (IsFresh /\ IsValidation) =>
        LET k == KnownCode(FreshKnownCodes, call.name)
        IN  IF call.name \in DOMAIN FreshKnownCodes
            THEN IF call.code = k THEN ret = Validation(TRUE, k)
                 ELSE IF call.code \in {"", NoCode} THEN ret = Validation(TRUE, k)
                 ELSE ret = Validation(FALSE, k)
            ELSE ret = Validation(FALSE, NoCode)

\* C21's case: the fresh validator was asked about the name that has a
\* list of wrong codes, without a code, and answered with the correct one
C21_Witness ==
    /\ IsFresh /\ IsValidation
    /\ call.name = "Yitang" /\ call.code = NoCode
    /\ ret = Validation(TRUE, "688729")

NoDuplicates(list) ==
    \A i \in DOMAIN list : \A j \in DOMAIN list : list[i] = list[j] => i = j

\* C22: after any sequence of add_known_pair and add_wrong_code calls,
\* get_correct_code(name) returns the code of the latest add_known_pair for
\* that name, validate_before_analysis(name, that code) returns
\* (True, that code), and no list of wrong codes holds a code twice.
C22_LatestPairValidates ==
    /\ \A name \in DOMAIN latest_pair :
          /\ get_correct_code(known_codes, name) = latest_pair[name]
          /\ validate_before_analysis(known_codes, known_wrong_codes, name,
                                      latest_pair[name])
                = Validation(TRUE, latest_pair[name])
    /\ \A name \in DOMAIN known_wrong_codes : NoDuplicates(known_wrong_codes[name])

---------------------------------------------------------------------------
(* The filter of validate_data_consistency and validate_trade_data on the  *)
(* same quote: two sources report the quote, so that the filter runs, and  *)
(* validate_trade_data is called with its volume, amount and price         *)

QuoteOfCall(c) ==
    [price |-> c.price, volume |-> c.volume, amount |-> c.amount,
     change_pct |-> Num(0)]

InitFilter ==
    /\ call \in {c \in TradeCalls : c.class = "ImprovedStockAnalyzer"}
    /\ ret = NoRet
    /\ sources_data = << [name |-> 1, data |-> QuoteOfCall(call)],
                         [name |-> 2, data |-> QuoteOfCall(call)] >>
    /\ consistency = NotCalled /\ report = NotRun
    /\ primary_data = NotFetched /\ secondary_data = NotFetched
    /\ final_data = NoFinalData
    /\ LimiterConstructed(MinRequestInterval)
    /\ LaterConstructed

NextFilter == ValidateDataConsistency \/ ValidateTradeData

SpecFilter == InitFilter /\ [][NextFilter]_vars

---------------------------------------------------------------------------
(* C23: the filter against validate_trade_data *)

\* source 1 is among the valid_sources the filter built
KeptByFilter ==
    /\ consistency.status = "returned"
    /\ LET valid == ValidSources(sources_data, 1, <<>>).valid_sources
       IN  \E i \in DOMAIN valid : valid[i].name = 1

\* C23: for every source with price > 0, volume > 0 and amount > 0, the
\* consistency filter keeps the source exactly when validate_trade_data
\* accepts the same (volume, amount, price), a deviation of exactly 0.5
\* included.
C23_FilterAgreesWithValidator ==
    (/\ Made /\ IsTradeCall /\ WasCalled
     /\ Positive(call.price) /\ Positive(call.volume) /\ Positive(call.amount))
    => /\ ret.status = "returned"
       /\ consistency.status = "returned"
       /\ KeptByFilter <=> ret.ok

---------------------------------------------------------------------------
(* C24: analyze_stock with an unreasonable source among the fetched ones *)

PassesReasonableness(data) ==
    LET verdict == validate_data_reasonableness(data)
    IN  verdict.status = "returned" /\ verdict.ok

\* C24: in analyze_stock, whenever at least one fetched source is both
\* reasonable (passes validate_data_reasonableness) and internally
\* consistent, the pipeline reports real-time data for a reasonable quote;
\* an unreasonable source fetched alongside it cannot make the analysis
\* fail.
C24_GoodSourceIsReported ==
    (/\ report.stage # "not run"
     /\ \E i \in 1..Len(sources_data) :
           /\ PassesReasonableness(sources_data[i].data)
           /\ Survives(sources_data[i].data))
    => /\ report.stage = "real-time data"
       /\ QuoteIsReasonable(report.data)

---------------------------------------------------------------------------
(* C25: the returns calculate_sharpe_ratio averages *)

\* C25: when more than 10 finite returns are supplied,
\* calculate_sharpe_ratio averages a window of the sorted returns that
\* leaves out as many of the lowest as of the highest returns; for 10 or
\* fewer returns it averages all of them.
C25_TrimIsSymmetric ==
    (IsCallOf("calculate_sharpe_ratio") /\ ret.status = "returned") =>
        LET n == Len(ret.filtered)
            sorted == SortReturns(ret.filtered)
        IN  IF n > 10
            THEN \E k \in 0..n :
                    AveragedReturns(ret.filtered) = SubSeq(sorted, k + 1, n - k)
            ELSE AveragedReturns(ret.filtered) = ret.filtered

---------------------------------------------------------------------------
(* C26: the validators on null fields *)

\* C26: validate_data_reasonableness and validate_trade_data of
\* ImprovedStockAnalyzer return a (bool, reason) pair for every input, a
\* None price, volume, change percentage or amount included; they never
\* raise.
C26_ValidatorsNeverRaise ==
    (Made /\ call.class = "ImprovedStockAnalyzer") => ret.status = "returned"

---------------------------------------------------------------------------
(* AkshareEnhanced.get_with_retry and StockDataFetcher._make_request:      *)
(* wait_for_rate_limit once, then the loop `for attempt in                 *)
(* range(max_retries)`, by several threads on one instance.  The threads   *)
(* go through the rate limiter above; a thread whose pc is "done" has      *)
(* returned from it and is at the head of the loop.                        *)

MaxRetries == 2

\* (mutant: the loop sleeps after its last failed attempt too)
MoreAttemptsAlways(t) == TRUE

\* if attempt < self.max_retries - 1
MoreAttempts(t) == attempt[t] < max_retries - 1

retry_other_vars == <<reconcile_vars, accurate_vars, validator_vars,
                      framework_vars, decorator_vars, baostock_vars>>

\* one of the two classes, with any max_retries from 0 on
InitRetry ==
    /\ sources_data = <<>> /\ consistency = NotCalled /\ report = NotRun
    /\ primary_data = NotFetched /\ secondary_data = NotFetched
    /\ final_data = NoFinalData
    /\ call = NoCall /\ ret = NoRet
    /\ \E class \in {<<MinRequestInterval, AkshareBackoff>>,
                     <<RequestInterval, FetcherBackoff>>} :
       \E retries \in 0..MaxRetries :
          /\ LimiterConstructed(class[1])
          /\ RetryConstructed(retries, class[2])
    /\ ValidatorConstructed
    /\ WrapperDefined
    /\ AnalyzerConstructed

\* for attempt in range(self.max_retries): the next round, or the
\* `return None` after the loop
LoopTest(t) ==
    /\ pc[t] \in {"done", "next"}
    /\ IF attempt[t] < max_retries
       THEN /\ pc' = [pc EXCEPT ![t] = "attempt"]
            /\ UNCHANGED response
       ELSE /\ pc' = [pc EXCEPT ![t] = "returned"]
            /\ response' = [response EXCEPT ![t] = "None"]
    /\ UNCHANGED <<min_request_interval, last_request_time, lock, sleep_time, now,
                   recorded, max_retries, backoff_unit, attempt, backoffs,
                   attempts, retry_other_vars>>

\* session.get(url, ...) starts now; response.raise_for_status() passes
\* and the response is returned, or an exception is caught and the handler
\* either goes on to sleep or returns None
Attempt(t) ==
    /\ pc[t] = "attempt"
    /\ \E ok \in BOOLEAN :
          /\ attempts' = Append(attempts, [thread |-> t, time |-> now, ok |-> ok])
          /\ IF ok
             THEN /\ response' = [response EXCEPT ![t] = "response"]
                  /\ pc' = [pc EXCEPT ![t] = "returned"]
             ELSE IF MoreAttempts(t)
             THEN /\ pc' = [pc EXCEPT ![t] = "backoff"]
                  /\ UNCHANGED response
             ELSE /\ response' = [response EXCEPT ![t] = "None"]
                  /\ pc' = [pc EXCEPT ![t] = "returned"]
    /\ UNCHANGED <<min_request_interval, last_request_time, lock, sleep_time, now,
                   recorded, max_retries, backoff_unit, attempt, backoffs,
                   retry_other_vars>>

\* wait_time = (attempt + 1) * 2 (get_with_retry) or * 3 (_make_request);
\* time.sleep(wait_time): the clock has advanced by wait_time when the call
\* returns (a longer sleep is a Tick after it), and the loop goes on with
\* the next attempt
Backoff(t) ==
    /\ pc[t] = "backoff"
    /\ LET wait_time == (attempt[t] + 1) * backoff_unit
       IN  now' = now + wait_time
    /\ backoffs' = [backoffs EXCEPT ![t] = @ + 1]
    /\ attempt' = [attempt EXCEPT ![t] = @ + 1]
    /\ pc' = [pc EXCEPT ![t] = "next"]
    /\ UNCHANGED <<min_request_interval, last_request_time, lock, sleep_time,
                   recorded, max_retries, backoff_unit, response, attempts,
                   retry_other_vars>>

RetryStep(t) ==
    \/ ThreadStep(t)
    \/ LoopTest(t)
    \/ Attempt(t)
    \/ Backoff(t)

NextRetry ==
    \/ \E t \in Threads : CallWait(t)
    \/ \E t \in Threads : RetryStep(t)
    \/ Tick

\* a thread that can take its next step eventually takes it: a runnable
\* thread is scheduled, a sleep ends, a free lock is handed to a waiter and
\* an HTTP attempt ends with a response or an exception
SpecRetry ==
    /\ InitRetry
    /\ [][NextRetry]_vars
    /\ \A t \in Threads : WF_vars(RetryStep(t))

---------------------------------------------------------------------------
(* C27, C28: the attempts of the retry loop *)

\* C27: every outbound HTTP attempt made through get_with_retry or
\* _make_request on one instance, retries and other threads' attempts
\* included, starts at least the minimum request interval after the
\* previous attempt on that instance.
C27_AttemptsApart ==
    \A i \in 2..Len(attempts) :
        attempts[i].time - attempts[i - 1].time >= min_request_interval

AttemptsOf(t) == SelectSeq(attempts, LAMBDA a : a.thread = t)

HasReturnedFrom(t) == pc[t] = "returned"

AttemptsAsStated ==
    \A t \in Threads :
        LET mine == AttemptsOf(t)
            made == Len(mine)
        IN  /\ made <= max_retries
            /\ \A i \in 1..made : mine[i].ok => i = made
            /\ (made > 0 /\ mine[made].ok) => pc[t] = "returned"
            /\ HasReturnedFrom(t) =>
                  /\ response[t] = "response" <=> (made > 0 /\ mine[made].ok)
                  /\ response[t] = "None" <=>
                        (made = max_retries /\ \A i \in 1..made : ~mine[i].ok)
                  /\ backoffs[t] = IF made = 0 THEN 0 ELSE made - 1
            /\ max_retries = 0 => made = 0

---------------------------------------------------------------------------
(* rate_limited (akshare_enhanced.py): the wrapper around a decorated      *)
(* function, called by several threads.  The wrapper takes no lock; each   *)
(* of its statements is a step of its own.                                 *)

\* def rate_limited(min_interval: float = 3.0)
MinInterval == 3

MaxCalls == 3

wrapper_other_vars == <<reconcile_vars, accurate_vars, validator_vars,
                        framework_vars, retry_vars, baostock_vars,
                        min_request_interval, last_request_time, lock, pc,
                        recorded>>

InitWrapper == InitReconcile

\* thread t calls the decorated function
CallWrapper(t) ==
    /\ wrapper_pc[t] \in {"idle", "returned"}
    /\ Len(entered) < MaxCalls
    /\ wrapper_pc' = [wrapper_pc EXCEPT ![t] = "read"]
    /\ UNCHANGED <<has_last_call, last_call, wrapper_time, entered, sleep_time,
                   now, wrapper_other_vars>>

\* current_time = time.time()
ReadTime(t) ==
    /\ wrapper_pc[t] = "read"
    /\ wrapper_time' = [wrapper_time EXCEPT ![t] = now]
    /\ wrapper_pc' = [wrapper_pc EXCEPT ![t] = "check"]
    /\ UNCHANGED <<has_last_call, last_call, entered, sleep_time, now,
                   wrapper_other_vars>>

\* if hasattr(wrapper, '_last_call'): time_since_last = current_time -
\* wrapper._last_call; if time_since_last < min_interval: sleep_time =
\* min_interval - time_since_last
CheckLastCall(t) ==
    /\ wrapper_pc[t] = "check"
    /\ LET time_since_last == wrapper_time[t] - last_call
       IN  IF has_last_call /\ time_since_last < MinInterval
           THEN /\ sleep_time' = [sleep_time EXCEPT ![t] = MinInterval - time_since_last]
                /\ wrapper_pc' = [wrapper_pc EXCEPT ![t] = "sleep"]
           ELSE /\ wrapper_pc' = [wrapper_pc EXCEPT ![t] = "stamp"]
                /\ UNCHANGED sleep_time
    /\ UNCHANGED <<has_last_call, last_call, wrapper_time, entered, now,
                   wrapper_other_vars>>

\* time.sleep(sleep_time): the clock has advanced by at least sleep_time
\* when the call returns
WrapperSleep(t) ==
    /\ wrapper_pc[t] = "sleep"
    /\ \E over \in 0..MaxOversleep : now' = now + sleep_time[t] + over
    /\ wrapper_pc' = [wrapper_pc EXCEPT ![t] = "stamp"]
    /\ UNCHANGED <<has_last_call, last_call, wrapper_time, entered, sleep_time,
                   wrapper_other_vars>>

\* wrapper._last_call = time.time()
StampLastCall(t) ==
    /\ wrapper_pc[t] = "stamp"
    /\ has_last_call' = TRUE
    /\ last_call' = now
    /\ wrapper_pc' = [wrapper_pc EXCEPT ![t] = "enter"]
    /\ UNCHANGED <<wrapper_time, entered, sleep_time, now, wrapper_other_vars>>

\* return func(*args, **kwargs): func is entered now
EnterFunc(t) ==
    /\ wrapper_pc[t] = "enter"
    /\ entered' = Append(entered, now)
    /\ wrapper_pc' = [wrapper_pc EXCEPT ![t] = "returned"]
    /\ UNCHANGED <<has_last_call, last_call, wrapper_time, sleep_time, now,
                   wrapper_other_vars>>

WrapperStep(t) ==
    \/ CallWrapper(t)
    \/ ReadTime(t)
    \/ CheckLastCall(t)
    \/ WrapperSleep(t)
    \/ StampLastCall(t)
    \/ EnterFunc(t)

NextWrapper ==
    \/ \E t \in Threads : WrapperStep(t)
    \/ Tick

SpecWrapper == InitWrapper /\ [][NextWrapper]_vars

---------------------------------------------------------------------------
(* C29: the decorated function under concurrent callers *)

\* C29: a function wrapped by rate_limited is never entered twice within
\* min_interval of each other, for any interleaving of concurrent callers.
C29_EntriesApart ==
    \A i \in 2..Len(entered) : entered[i] - entered[i - 1] >= MinInterval

---------------------------------------------------------------------------
(* MultiSourceStockAnalyzer: init_baostock, cleanup and analyze_stock on   *)
(* one analyzer (multi_source_stock_analyzer.py).  bs.login() answers with *)
(* error_code '0', with another error code, or raises.                     *)

MaxSessionCalls == 6

LoginOutcomes == {"ok", "refused", "raised"}

Analyzer(sources, state, log) ==
    [active_sources |-> sources, session |-> state, session_log |-> log]

\* init_baostock: the analyzer afterwards and the value returned
init_baostock(self, login) ==
    IF login = "ok"
    THEN [self |-> Analyzer(Append(self.active_sources, "baostock"), "logged in",
                            Append(self.session_log, "login")),
          result |-> TRUE]
    ELSE [self |-> self, result |-> FALSE]

\* list.remove(x): the list without the first element equal to x
RECURSIVE Remove(_, _)
Remove(list, x) ==
    IF list = <<>> THEN <<>>
    ELSE IF Head(list) = x THEN Tail(list)
    ELSE <<Head(list)>> \o Remove(Tail(list), x)

\* cleanup: the analyzer afterwards
cleanup(self) ==
    IF "baostock" \in Elements(self.active_sources)
    THEN Analyzer(Remove(self.active_sources, "baostock"), "logged out",
                  Append(self.session_log, "logout"))
    ELSE self

\* analyze_stock: `if not self.init_baostock(): return`, then the try
\* block, which returns early without data, raises, or runs to its end,
\* and `finally: self.cleanup()`
BodyOutcomes == {"no data", "raised", "completed"}
analyze_stock_multi(self, login, body) ==
    LET init == init_baostock(self, login)
    IN  IF ~init.result
        THEN [self |-> init.self, result |-> "no connection"]
        ELSE [self |-> cleanup(init.self), result |-> body]

Self == Analyzer(active_sources, session, session_log)

Op(method, result) == [method |-> method, result |-> result]

baostock_other_vars == <<reconcile_vars, accurate_vars, validator_vars,
                         limiter_vars, framework_vars, retry_vars,
                         decorator_vars>>

InitAnalyzer == InitReconcile

Becomes(self) ==
    /\ active_sources' = self.active_sources
    /\ session' = self.session
    /\ session_log' = self.session_log

InitBaostock ==
    /\ Len(session_log) < MaxSessionCalls
    /\ \E login \in LoginOutcomes :
          LET done == init_baostock(Self, login)
          IN  /\ Becomes(done.self)
              /\ last_op' = Op("init_baostock", IF done.result THEN "True" ELSE "False")
    /\ UNCHANGED baostock_other_vars

Cleanup ==
    /\ Becomes(cleanup(Self))
    /\ last_op' = Op("cleanup", "None")
    /\ UNCHANGED baostock_other_vars

AnalyzeStockMulti ==
    /\ Len(session_log) < MaxSessionCalls
    /\ \E login \in LoginOutcomes, body \in BodyOutcomes :
          LET done == analyze_stock_multi(Self, login, body)
          IN  /\ Becomes(done.self)
              /\ last_op' = Op("analyze_stock", done.result)
    /\ UNCHANGED baostock_other_vars

NextAnalyzer == InitBaostock \/ Cleanup \/ AnalyzeStockMulti

SpecAnalyzer == InitAnalyzer /\ [][NextAnalyzer]_vars

---------------------------------------------------------------------------
(* C30: the baostock session of the analyzer *)

Occurrences(list, x) == Cardinality({i \in DOMAIN list : list[i] = x})

\* C30: for any sequence of init_baostock, cleanup and analyze_stock calls
\* on a MultiSourceStockAnalyzer, active_sources contains 'baostock' at
\* most once; after cleanup() returns it contains no 'baostock' entry; and
\* after analyze_stock returns, on any path, the session it logged into has
\* been logged out.
C30_OneSessionCleanedUp ==
    /\ Occurrences(active_sources, "baostock") <= 1
    /\ last_op.method = "cleanup" => Occurrences(active_sources, "baostock") = 0
    /\ (last_op.method = "analyze_stock" /\ last_op.result # "no connection")
          => session = "logged out"

===========================================================================
